---- MODULE Spec2Model ----
(***************************************************************************)
(* treeshake-cli: the purity linter of src/index.js (filterEffects, lint,  *)
(* the sequential main loop) and the earlier ancestor-walk runner of       *)
(* src/unnamed/part_000 (hasIdent, hasScope, filterEffects, Promise.all).  *)
(*                                                                         *)
(* A module is a syntax tree.  Every node is a record with a type, a name  *)
(* (the identifier's name, "" where ESTree has no name property), its      *)
(* children in source order (kids) and the block comment, if any, printed  *)
(* right before its first token (lead, the comment's value as tokens).     *)
(* Parse lays the tree out as text and gives every node the start offset,  *)
(* line and column acorn reports.                                          *)
(***************************************************************************)
EXTENDS Integers, Sequences, FiniteSets, TLC

VARIABLES
    src,        \* the module under analysis (tree of the text handed to the parser)
    lintPc,     \* "ready" | "done": lint of src/index.js
    lintOut,    \* [threw, errors]: what lint returned
    walkPc,     \* "ready" | "done": the ancestor walk of part_000
    walkOut,    \* errors of the ancestor walk, in push order
    outputs,    \* bundler -> what its compile yields (a body, or a rejection)
    pc,         \* the main program's position
    task,       \* bundler -> position of its task (part_000)
    cur,        \* index of the bundler the sequential loop is at (index.js)
    todo,       \* bundler -> console calls its task has still to make
    stdio,      \* the console calls made so far, in order
    reason,     \* the value thrown to the main catch (what Promise.all rejected with)
    exitCode    \* "none" while running, then "0" or "1"

vars == <<src, lintPc, lintOut, walkPc, walkOut, outputs, pc, task, cur, todo, stdio, reason, exitCode>>

(* ------------------------------ bounds --------------------------------- *)
MaxStmts == 2       \* top-level statements of an analysed module
MaxBody == 2        \* top-level statements of a bundler's output

(* ------------------------- syntax tree nodes --------------------------- *)
NoLead == <<>>
PureAt == <<" ", "@__PURE__", " ">>
PureHash == <<"#__PURE__">>
Legal == <<"!", " ", "note">>

Raw(t, n, k) == [type |-> t, name |-> n, kids |-> k, lead |-> NoLead, static |-> FALSE]
Id(n) == Raw("Identifier", n, <<>>)
Hole == Raw("null", "", <<>>)
Member(o, p) == Raw("MemberExpression", "", <<o, p>>)
Call(c, args) == Raw("CallExpression", "", <<c>> \o args)
New(c, args) == Raw("NewExpression", "", <<c>> \o args)
Fn(body) == Raw("FunctionExpression", "", body)
Arrow(body) == Raw("ArrowFunctionExpression", "", body)
Assign(l, r) == Raw("AssignmentExpression", "", <<l, r>>)
Binary(l, r) == Raw("BinaryExpression", "", <<l, r>>)
Unary(e) == Raw("UnaryExpression", "", <<e>>)
Prop(k, v) == Raw("Property", "", <<k, v>>)
Obj(props) == Raw("ObjectExpression", "", props)
Arr(elems) == Raw("ArrayExpression", "", elems)
ExprStmt(e) == Raw("ExpressionStatement", "", <<e>>)
Declarator(i, init) == Raw("VariableDeclarator", "", <<i, init>>)
VarDecl(ds) == Raw("VariableDeclaration", "", ds)
FuncDecl(body) == Raw("FunctionDeclaration", "g", body)
Field(st, k, v) == [Raw("PropertyDefinition", "", <<k, v>>) EXCEPT !.static = st]
ClassDecl(fields) == Raw("ClassDeclaration", "K", fields)
Import == Raw("ImportDeclaration", "", <<>>)
WithLead(e, c) == [e EXCEPT !.lead = c]

(* accessors, named as the ESTree properties the code reads *)
callee(n) == n.kids[1]
arguments(n) == Tail(n.kids)
object(n) == n.kids[1]
property(n) == n.kids[2]
init(n) == n.kids[2]
left(n) == n.kids[1]
right(n) == n.kids[2]
key(n) == n.kids[1]
value(n) == n.kids[2]

(* ------------------------------ layout --------------------------------- *)
IsStatement(t) ==
    t \in {"ExpressionStatement", "VariableDeclaration", "FunctionDeclaration",
           "ClassDeclaration", "ImportDeclaration", "PropertyDefinition"}

\* tokens printed before the first child: the identifier itself, `new`, `const`,
\* `function g() {`, `class K {`, `(function() {`, `() =>`, `!`, `{`, `[`
OpenWidth(t) ==
    CASE t \in {"Identifier", "NewExpression", "VariableDeclaration", "UnaryExpression",
                "FunctionExpression", "ArrowFunctionExpression", "ImportDeclaration",
                "ObjectExpression", "ArrayExpression"} -> 1
      [] t \in {"FunctionDeclaration", "ClassDeclaration"} -> 2
      [] OTHER -> 0

\* tokens printed after the last child: `)`, `}`, `]`
CloseWidth(t) ==
    IF t \in {"CallExpression", "NewExpression", "FunctionExpression", "ObjectExpression",
              "ArrayExpression", "FunctionDeclaration", "ClassDeclaration"}
    THEN 1 ELSE 0

Adv(p, w) == [p EXCEPT !.off = @ + w, !.col = @ + w]
NewLine(p) == [off |-> p.off + 1, line |-> p.line + 1, col |-> 0]
Origin == [off |-> 0, line |-> 1, col |-> 0]

RECURSIVE Place(_, _), PlaceKids(_, _)

\* the node with its positions, and the position after its last token; one
\* separator token (`.`, `(`, `,`, `=`, `+`, `:`) stands between two children
Place(n, p) ==
    LET at == IF n.lead = NoLead THEN p ELSE Adv(p, 1)
        ks == PlaceKids(n.kids, Adv(at, OpenWidth(n.type)))
        end == Adv(ks.next, CloseWidth(n.type))
    IN  [node |-> [type |-> n.type, name |-> n.name, kids |-> ks.nodes,
                   lead |-> n.lead, leadPos |-> p, static |-> n.static,
                   start |-> at.off, line |-> at.line, column |-> at.col,
                   hasValue |-> FALSE, value |-> <<>>],
         next |-> IF IsStatement(n.type) THEN NewLine(end) ELSE end]

PlaceKids(ks, p) ==
    IF ks = <<>> THEN [nodes |-> <<>>, next |-> p]
    ELSE LET h == Place(Head(ks), p)
             sep == IF Len(ks) > 1 /\ ~IsStatement(Head(ks).type) THEN 1 ELSE 0
             t == PlaceKids(Tail(ks), Adv(h.next, sep))
         IN  [nodes |-> <<h.node>> \o t.nodes, next |-> t.next]

\* acorn.parse(code, {locations: true}): the Program node
Parse(body) ==
    LET ks == PlaceKids(body, Origin)
    IN  [type |-> "Program", name |-> "", kids |-> ks.nodes, lead |-> NoLead,
         leadPos |-> Origin, static |-> FALSE, start |-> 0, line |-> 1, column |-> 0,
         hasValue |-> FALSE, value |-> <<>>]

RECURSIVE CommentsOf(_), CommentsOfAll(_)

\* acorn's onComment array: every comment of the text, inside function bodies
\* too, in source order
CommentsOf(n) ==
    (IF n.lead = NoLead THEN <<>>
     ELSE <<[type |-> "Block", name |-> "", kids |-> <<>>, lead |-> NoLead,
             leadPos |-> n.leadPos, static |-> FALSE, start |-> n.leadPos.off,
             line |-> n.leadPos.line, column |-> n.leadPos.col,
             hasValue |-> FALSE, value |-> n.lead]>>)
    \o CommentsOfAll(n.kids)

CommentsOfAll(ks) ==
    IF ks = <<>> THEN <<>> ELSE CommentsOf(Head(ks)) \o CommentsOfAll(Tail(ks))

(* ----------------------- the modules analysed --------------------------- *)
a_b == Member(Id("a"), Id("b"))
f0 == Call(Id("f"), <<>>)

\* expressions without nesting: an identifier, a member access, and calls and
\* constructions of every callee shape, some annotated
Leaves ==
    { Id("x"), a_b, f0,
      WithLead(f0, PureAt),
      Call(a_b, <<>>),
      Call(Member(Id("Math"), Id("max")), <<>>),
      Call(Member(Member(Id("Intl"), Id("Collator")), Id("supportedLocalesOf")), <<>>),
      Call(Fn(<<>>), <<>>),
      New(Id("Foo"), <<>>),
      WithLead(New(Id("Foo"), <<>>), PureHash),
      New(Id("Map"), <<>>) }

\* the places an expression e can stand in
Wraps(e) ==
    { Call(Id("f"), <<e>>),
      Member(e, Id("c")),
      Assign(Id("y"), e),
      Arrow(<<e>>),
      Unary(e) }

Nested ==
    Wraps(f0) \cup Wraps(a_b)
    \cup { Assign(a_b, Id("y")), Assign(a_b, f0), Binary(Id("y"), f0),
           Obj(<<Prop(Id("k"), f0)>>), Arr(<<f0>>) }

\* what a declarator binds: nothing, or a value
Inits ==
    { Hole, Id("x"), a_b, f0, WithLead(f0, PureAt),
      WithLead(New(Id("Foo"), <<>>), PureHash),
      Call(Member(Id("Math"), Id("max")), <<>>),
      Obj(<<Prop(Id("k"), f0)>>), Arr(<<f0>>) }

Statements ==
    { ExprStmt(e) : e \in Leaves \cup Nested }
    \cup { ExprStmt(Arr(<<Hole, Id("x")>>)), ExprStmt(WithLead(f0, Legal)), Import }
    \cup { VarDecl(<<Declarator(Id("v"), e)>>) : e \in Inits }
    \cup { FuncDecl(<<ExprStmt(e)>>) : e \in {f0, WithLead(f0, PureAt)} }
    \cup { ClassDecl(<<Field(st, Id("p"), f0)>>) : st \in BOOLEAN }
    \cup { ClassDecl(<<Field(TRUE, Id("p"), a_b)>>) }

RECURSIVE SeqsUpTo(_, _)
SeqsUpTo(S, n) ==
    IF n = 0 THEN {<<>>}
    ELSE LET shorter == SeqsUpTo(S, n - 1)
         IN  shorter \cup { Append(q, s) : q \in shorter, s \in S }

Modules == SeqsUpTo(Statements, MaxStmts) \ {<<>>}

(* ------------------------ src/index.js: lint ---------------------------- *)
builtins ==
    <<"Array", "Array.isArray", "ArrayBuffer", "ArrayBuffer.isView", "Boolean", "DataView",
      "Date", "Date.UTC", "Date.now", "Date.parse", "Error", "EvalError", "Float32Array",
      "Float64Array", "Function", "Int16Array", "Int32Array", "Int8Array", "InternalError",
      "Intl.Collator", "Intl.Collator.supportedLocalesOf", "Intl.DateTimeFormat",
      "Intl.DateTimeFormat.supportedLocalesOf", "Intl.NumberFormat",
      "Intl.NumberFormat.supportedLocalesOf", "JSON.parse", "JSON.stringify", "Map",
      "Math.abs", "Math.acos", "Math.acosh", "Math.asin", "Math.asinh", "Math.atan",
      "Math.atan2", "Math.atanh", "Math.cbrt", "Math.ceil", "Math.clz32", "Math.cos",
      "Math.cosh", "Math.exp", "Math.expm1", "Math.floor", "Math.fround", "Math.hypot",
      "Math.imul", "Math.log", "Math.log10", "Math.log1p", "Math.log2", "Math.max",
      "Math.min", "Math.pow", "Math.random", "Math.round", "Math.sign", "Math.sin",
      "Math.sinh", "Math.sqrt", "Math.tan", "Math.tanh", "Math.trunc", "Number",
      "Number.isFinite", "Number.isInteger", "Number.isNaN", "Number.isSafeInteger",
      "Number.parseFloat", "Number.parseInt", "Object", "Object.create",
      "Object.getNotifier", "Object.getOwn", "Object.getOwnPropertyDescriptor",
      "Object.getOwnPropertyNames", "Object.getOwnPropertySymbols",
      "Object.getPrototypeOf", "Object.is", "Object.isExtensible", "Object.isFrozen",
      "Object.isSealed", "Object.keys", "Promise", "Promise.all", "Promise.race",
      "Promise.reject", "Promise.resolve", "RangeError", "ReferenceError", "RegExp", "Set",
      "String", "String.fromCharCode", "String.fromCodePoint", "String.raw", "Symbol",
      "Symbol.for", "Symbol.keyFor", "SyntaxError", "TypeError", "URIError", "Uint16Array",
      "Uint32Array", "Uint8Array", "Uint8ClampedArray", "WeakMap", "WeakSet", "decodeURI",
      "decodeURIComponent", "encodeURI", "encodeURIComponent", "escape", "isFinite",
      "isNaN", "parseFloat", "parseInt", "unescape" >>

includes(list, x) == \E i \in 1..Len(list) : list[i] = x

RECURSIVE trimStart(_), trimEnd(_)
trimStart(v) == IF v # <<>> /\ Head(v) = " " THEN trimStart(Tail(v)) ELSE v
trimEnd(v) == IF v # <<>> /\ v[Len(v)] = " " THEN trimEnd(SubSeq(v, 1, Len(v) - 1)) ELSE v
trim(v) == trimEnd(trimStart(v))

\* a TypeError leaves the function at once; nodes is what was pushed
Thrown == [threw |-> TRUE, nodes |-> <<>>]
Pushed(ns) == [threw |-> FALSE, nodes |-> ns]

RECURSIVE filterEffects(_), filterEach(_)

filterEffects(node) ==
    IF node.type = "null" THEN Thrown       \* node.type of null
    ELSE IF node.type = "Block"
            /\ (trim(node.value) = <<"@__PURE__">> \/ trim(node.value) = <<"#__PURE__">>)
    THEN Pushed(<<node>>)
    ELSE IF node.type = "CallExpression" \/ node.type = "NewExpression"
    THEN LET r == filterEach(arguments(node))
         IN  IF r.threw THEN Thrown ELSE Pushed(<<node>> \o r.nodes)
    ELSE IF node.type = "MemberExpression" THEN Pushed(<<node>>)
    ELSE IF node.type = "ExpressionStatement" THEN filterEffects(node.kids[1])
    ELSE IF node.type = "VariableDeclaration" THEN filterEach(node.kids)
    ELSE IF node.type = "VariableDeclarator"
    THEN IF init(node).type = "null" THEN Thrown    \* null.hasValue = true
         ELSE filterEffects([init(node) EXCEPT !.hasValue = TRUE])
    ELSE IF node.type = "AssignmentExpression" \/ node.type = "BinaryExpression"
    THEN filterEach(<<left(node), right(node)>>)
    ELSE IF node.type = "ObjectExpression" THEN filterEach(node.kids)
    ELSE IF node.type = "Property" THEN filterEach(<<key(node), value(node)>>)
    ELSE IF node.type = "ArrayExpression" THEN filterEach(node.kids)
    ELSE Pushed(<<>>)

\* one filterEffects call after the other, pushing to the same array
filterEach(ns) ==
    IF ns = <<>> THEN Pushed(<<>>)
    ELSE LET h == filterEffects(Head(ns))
         IN  IF h.threw THEN Thrown
             ELSE LET t == filterEach(Tail(ns))
                  IN  IF t.threw THEN Thrown ELSE Pushed(h.nodes \o t.nodes)

RECURSIVE insertByStart(_, _), sortByStart(_)
\* Array.prototype.sort((a, b) => a.start - b.start): stable
insertByStart(n, sorted) ==
    IF sorted = <<>> THEN <<n>>
    ELSE IF n.start - Head(sorted).start < 0 THEN <<n>> \o sorted
    ELSE <<Head(sorted)>> \o insertByStart(n, Tail(sorted))

sortByStart(ns) ==
    IF ns = <<>> THEN <<>>
    ELSE insertByStart(ns[Len(ns)], sortByStart(SubSeq(ns, 1, Len(ns) - 1)))

\* `${x}` of a name; "" stands for undefined
Str(n) == IF n = "" THEN "undefined" ELSE n

\* reading callee.object.name throws when callee has neither name nor object
calleeThrows(node) ==
    callee(node).name = "" /\ callee(node).type # "MemberExpression"

calleeName(node) ==
    IF callee(node).name # "" THEN callee(node).name
    ELSE Str(object(callee(node)).name) \o "." \o Str(property(callee(node)).name)

MustHaveValue(type) ==
    "Top-level " \o type \o " invocations must have a value or they will be discarded!"
MustBeAnnotated(type) ==
    "Top-level " \o type \o " invocations must be annotated with /* @__PURE__ */!"
RiskyMember == "Top-level member expressions may call expressive code! Prefer destructuring."

\* the error of one node of the loop; "" is null
errorOf(node, annotation) ==
    IF node.type = "CallExpression" \/ node.type = "NewExpression"
    THEN LET name == calleeName(node)
             type == IF node.type = "CallExpression" THEN "function" ELSE "class"
             pure == annotation \/ includes(builtins, name)
         IN  IF ~pure /\ ~node.hasValue THEN MustHaveValue(type)
             ELSE IF ~pure THEN MustBeAnnotated(type)
             ELSE ""
    ELSE IF node.type = "MemberExpression" THEN RiskyMember
    ELSE ""

RECURSIVE lintLoop(_, _)
lintLoop(nodes, annotation) ==
    IF nodes = <<>> THEN [threw |-> FALSE, errors |-> <<>>]
    ELSE LET node == Head(nodes)
         IN  IF node.type \in {"CallExpression", "NewExpression"} /\ calleeThrows(node)
             THEN [threw |-> TRUE, errors |-> <<>>]
             ELSE LET error == errorOf(node, annotation)
                      rest == lintLoop(Tail(nodes), node.type = "Block")
                  IN  IF rest.threw THEN rest
                      ELSE [threw |-> FALSE,
                            errors |-> (IF error # ""
                                        THEN <<[line |-> node.line, column |-> node.column,
                                                error |-> error]>>
                                        ELSE <<>>) \o rest.errors]

\* lint(code): code is the text esbuild.transform printed; the listing is kept as
\* the set of lines marked with '>'
lint(code) ==
    LET ast == Parse(code)
        comments == CommentsOf(ast)
        found == filterEach(ast.kids \o comments)
    IN  IF found.threw THEN [threw |-> TRUE, errors |-> <<>>, marked |-> {}]
        ELSE LET r == lintLoop(sortByStart(found.nodes), FALSE)
             IN  [threw |-> r.threw, errors |-> r.errors,
                  marked |-> {r.errors[i].line : i \in 1..Len(r.errors)}]

(* ------------------- src/unnamed/part_000: ancestor walk ---------------- *)
hasIdent(node) == node.type = "AssignmentExpression" \/ node.type = "PropertyDefinition"

\* hasScope with the arrow functions forgotten
hasScopeWithoutArrows(node) ==
    CASE node.type \in {"FunctionDeclaration", "FunctionExpression", "ObjectMethod",
                        "ClassMethod", "ClassPrivateMethod"} -> TRUE
      [] node.type = "PropertyDefinition" -> ~node.static
      [] OTHER -> FALSE

hasScope(node) ==
    CASE node.type \in {"FunctionDeclaration", "FunctionExpression", "ObjectMethod",
                        "ArrowFunctionExpression", "ClassMethod", "ClassPrivateMethod"} -> TRUE
      [] node.type = "PropertyDefinition" -> ~node.static
      [] OTHER -> FALSE

AnonymousInvocation(type) ==
    "Anonymous " \o type \o " invocations must be assigned a value and annotated with /* @__PURE__ */!"
MayCallCode == "Top-level member expressions may call code! Prefer destructuring or IIFE."

RECURSIVE scanAncestors(_, _, _)
\* the loop over ancestors: "return", or whether anonymous is still true at its end
scanAncestors(node, ancestors, anonymous) ==
    IF ancestors = <<>> THEN (IF anonymous THEN "anonymous" ELSE "named")
    ELSE LET ancestor == Head(ancestors)
         IN  IF node.type = "MemberExpression" /\ ancestor.type = "CallExpression" THEN "return"
             ELSE IF hasScope(ancestor) THEN "return"
             ELSE scanAncestors(node, Tail(ancestors), anonymous /\ ~hasIdent(ancestor))

\* filterEffects(node, _state, ancestors) of part_000: the errors it pushes
walkFilterEffects(node, ancestors) ==
    LET scan == scanAncestors(node, ancestors, TRUE)
        type == IF node.type = "CallExpression" THEN "function" ELSE "class"
        error == IF node.type = "CallExpression" \/ node.type = "NewExpression"
                 THEN IF scan = "anonymous" THEN AnonymousInvocation(type)
                      ELSE MustBeAnnotated(type)
                 ELSE IF node.type = "MemberExpression" THEN MayCallCode
                 ELSE ""
    IN  IF scan = "return" \/ error = "" THEN <<>>
        ELSE <<[line |-> node.line, column |-> node.column, error |-> error]>>

RECURSIVE ancestorWalk(_, _), ancestorWalkAll(_, _)
\* walk.ancestor: children first, then the node's visitor, with the node itself
\* last in ancestors
ancestorWalk(node, ancestors) ==
    LET here == Append(ancestors, node)
    IN  ancestorWalkAll(node.kids, here)
        \o (IF node.type \in {"CallExpression", "NewExpression", "MemberExpression"}
            THEN walkFilterEffects(node, here) ELSE <<>>)

ancestorWalkAll(ks, ancestors) ==
    IF ks = <<>> THEN <<>>
    ELSE ancestorWalk(Head(ks), ancestors) \o ancestorWalkAll(Tail(ks), ancestors)

\* the errors array of one backend task
walkErrors(code) == ancestorWalk(Parse(code), <<>>)

(* ------------------ the two analyses applied to a module ---------------- *)
NoReason == [kind |-> "none", by |-> "none"]

None == [threw |-> FALSE, errors |-> <<>>, marked |-> {}]

IdleMain ==
    /\ outputs = <<>> /\ pc = "idle" /\ task = <<>> /\ cur = 0
    /\ todo = <<>> /\ stdio = <<>> /\ reason = NoReason /\ exitCode = "none"

IdleAnalysis ==
    /\ lintPc = "idle" /\ lintOut = None /\ walkPc = "idle" /\ walkOut = <<>>

InitAnalyze ==
    /\ src \in Modules
    /\ lintPc = "ready" /\ lintOut = None
    /\ walkPc = "ready" /\ walkOut = <<>>
    /\ IdleMain

RunLint ==
    /\ lintPc = "ready"
    /\ lintPc' = "done"
    /\ lintOut' = lint(src)
    /\ UNCHANGED <<src, walkPc, walkOut, outputs, pc, task, cur, todo, stdio, reason, exitCode>>

RunWalk ==
    /\ walkPc = "ready"
    /\ walkPc' = "done"
    /\ walkOut' = walkErrors(src)
    /\ UNCHANGED <<src, lintPc, lintOut, outputs, pc, task, cur, todo, stdio, reason, exitCode>>

NextAnalyze == RunLint \/ RunWalk

SpecAnalyze == InitAnalyze /\ [][NextAnalyze]_vars

(* ------------------------- the bundlers' outputs ------------------------ *)
\* Object.keys(bundlers), in declaration order
BundlerOrder == <<"Rollup", "Webpack", "ESBuild">>
Bundlers == {BundlerOrder[i] : i \in 1..Len(BundlerOrder)}

\* what compile(file) settles with: the code, or a rejection
Rejected == [rejected |-> TRUE, body |-> <<>>]
Compiled(body) == [rejected |-> FALSE, body |-> body]
Outputs == {Rejected} \cup {Compiled(b) : b \in SeqsUpTo({Import, ExprStmt(f0)}, MaxBody)}

\* the files linted when a bundler leaves code behind
MainSources ==
    { <<ExprStmt(f0)>>,
      <<ExprStmt(Call(Id("f"), <<f0>>)), ExprStmt(a_b)>>,
      <<VarDecl(<<Declarator(Id("v"), Hole)>>)>> }

Say(stream, by, kind, what) == [stream |-> stream, by |-> by, kind |-> kind, what |-> what]
Exception(kind, by) == [kind |-> kind, by |-> by]

(* --------------------- src/index.js: the main program ------------------- *)
\* the check with only the first statement of the body looked at
IsTreeShakenFirstOnly(ast) == ast.kids = <<>> \/ ast.kids[1].type = "ImportDeclaration"
\* the loop over ast.body finds no statement that is not an import
IsTreeShaken(ast) == \A i \in 1..Len(ast.kids) : ast.kids[i].type = "ImportDeclaration"

InitMain ==
    /\ src \in MainSources
    /\ outputs \in [Bundlers -> Outputs]
    /\ pc = "compile" /\ cur = 1
    /\ task = <<>> /\ todo = <<>> /\ stdio = <<>> /\ reason = NoReason /\ exitCode = "none"
    /\ IdleAnalysis

\* const code = await compile(file)
MainCompile ==
    /\ pc = "compile"
    /\ LET b == BundlerOrder[cur]
       IN  IF outputs[b].rejected
           THEN pc' = "catch" /\ reason' = Exception("compile error", b)
           ELSE pc' = "check" /\ UNCHANGED reason
    /\ UNCHANGED <<src, lintPc, lintOut, walkPc, walkOut, outputs, task, cur, todo, stdio, exitCode>>

\* acorn.parse(code) and the loop over ast.body, up to the call of lint
MainCheck ==
    /\ pc = "check"
    /\ LET ast == Parse(outputs[BundlerOrder[cur]].body)
       IN  IF ~IsTreeShaken(ast) THEN pc' = "lint" /\ UNCHANGED cur
           ELSE IF cur < Len(BundlerOrder) THEN pc' = "compile" /\ cur' = cur + 1
           ELSE pc' = "success" /\ UNCHANGED cur
    /\ UNCHANGED <<src, lintPc, lintOut, walkPc, walkOut, outputs, task, todo, stdio, reason, exitCode>>

\* await lint(fs.readFileSync(file, 'utf-8'))
MainLint ==
    /\ pc = "lint"
    /\ lintOut' = lint(src)
    /\ IF lintOut'.threw
       THEN pc' = "catch" /\ reason' = Exception("TypeError", BundlerOrder[cur])
       ELSE pc' = "report" /\ UNCHANGED reason
    /\ UNCHANGED <<src, lintPc, walkPc, walkOut, outputs, task, cur, todo, stdio, exitCode>>

\* console.log(code), console.error of every error, throw
MainReport ==
    /\ pc = "report"
    /\ LET b == BundlerOrder[cur]
       IN  /\ stdio' = stdio \o <<Say("stdout", b, "listing", [marked |-> lintOut.marked])>>
                             \o [i \in 1..Len(lintOut.errors) |-> Say("stderr", b, "error", lintOut.errors[i])]
           /\ reason' = Exception("Couldn't tree-shake", b)
    /\ pc' = "catch"
    /\ UNCHANGED <<src, lintPc, lintOut, walkPc, walkOut, outputs, task, cur, todo, exitCode>>

\* console.info(`Successfully tree-shaken ...`), and the program ends
MainSuccess ==
    /\ pc = "success"
    /\ stdio' = Append(stdio, Say("stdout", "main", "success", BundlerOrder))
    /\ pc' = "done"
    /\ exitCode' = "0"
    /\ UNCHANGED <<src, lintPc, lintOut, walkPc, walkOut, outputs, task, cur, todo, reason>>

\* catch (e) { console.error(e); process.exit(1) }
MainCatch ==
    /\ pc = "catch"
    /\ stdio' = Append(stdio, Say("stderr", "main", "thrown", reason))
    /\ pc' = "exited"
    /\ exitCode' = "1"
    /\ UNCHANGED <<src, lintPc, lintOut, walkPc, walkOut, outputs, task, cur, todo, reason>>

NextMain == MainCompile \/ MainCheck \/ MainLint \/ MainReport \/ MainSuccess \/ MainCatch

SpecMain == InitMain /\ [][NextMain]_vars

(* --------------- src/unnamed/part_000: the concurrent runner ------------ *)
\* a continuation may start at any time, as if the task awaited between its prints
ThreadAlwaysFree == TRUE

\* JavaScript runs one continuation at a time: between `await compile(file)` and
\* the end of the task there is no await, so a resumed task runs to its end
\* before any other continuation starts.  Which settled promise's continuation
\* runs next is left open: two that settle in the same turn run in either order
ThreadFree == \A b \in Bundlers : task[b] # "printing"

\* a throw that also rejects every sibling still awaiting its compile
AfterThrowCancelSiblings(t, b) ==
    [c \in Bundlers |-> IF c = b \/ t[c] = "compiling" THEN "rejected" ELSE t[c]]
\* the task map once task b has thrown: the siblings are left as they are
AfterThrow(t, b) == [t EXCEPT ![b] = "rejected"]

\* Promise.all rejects with the first rejection
FirstReason(r) == IF reason = NoReason THEN r ELSE reason

InitRunner ==
    /\ src = <<>>
    /\ outputs \in [Bundlers -> Outputs]
    /\ pc = "awaiting" /\ cur = 0
    /\ task = [b \in Bundlers |-> "compiling"]
    /\ todo = [b \in Bundlers |-> <<>>]
    /\ stdio = <<>> /\ reason = NoReason /\ exitCode = "none"
    /\ IdleAnalysis

\* compile(file) settles and the task goes on: a rejection leaves the task at
\* once; otherwise the walk fills errors, and the task ends if there are none
TaskResume(b) ==
    /\ pc = "awaiting" /\ task[b] = "compiling" /\ ThreadFree
    /\ IF outputs[b].rejected
       THEN /\ task' = AfterThrow(task, b)
            /\ reason' = FirstReason(Exception("compile error", b))
            /\ UNCHANGED todo
       ELSE LET errors == walkErrors(outputs[b].body)
            IN  IF errors = <<>>
                THEN task' = [task EXCEPT ![b] = "fulfilled"] /\ UNCHANGED <<todo, reason>>
                ELSE /\ task' = [task EXCEPT ![b] = "printing"]
                     /\ todo' = [todo EXCEPT ![b] =
                            <<Say("stdout", b, "listing", [marked |-> {errors[i].line : i \in 1..Len(errors)}])>>
                            \o [i \in 1..Len(errors) |-> Say("stderr", b, "error", errors[i])]]
                     /\ UNCHANGED reason
    /\ UNCHANGED <<src, lintPc, lintOut, walkPc, walkOut, outputs, pc, cur, stdio, exitCode>>

\* console.log(lines.join('\n')), then one console.error per error
TaskPrint(b) ==
    /\ pc = "awaiting" /\ task[b] = "printing" /\ todo[b] # <<>>
    /\ stdio' = Append(stdio, Head(todo[b]))
    /\ todo' = [todo EXCEPT ![b] = Tail(@)]
    /\ UNCHANGED <<src, lintPc, lintOut, walkPc, walkOut, outputs, pc, task, cur, reason, exitCode>>

\* throw `Couldn't tree-shake "${input}" with ${bundler}!`
TaskThrow(b) ==
    /\ pc = "awaiting" /\ task[b] = "printing" /\ todo[b] = <<>>
    /\ task' = AfterThrow(task, b)
    /\ reason' = FirstReason(Exception("Couldn't tree-shake", b))
    /\ UNCHANGED <<src, lintPc, lintOut, walkPc, walkOut, outputs, pc, cur, todo, stdio, exitCode>>

\* Promise.all has rejected: catch (e) { console.error(e); process.exit(1) }
RunnerCatch ==
    /\ pc = "awaiting" /\ reason # NoReason /\ ThreadFree
    /\ stdio' = Append(stdio, Say("stderr", "main", "thrown", reason))
    /\ pc' = "exited"
    /\ exitCode' = "1"
    /\ UNCHANGED <<src, lintPc, lintOut, walkPc, walkOut, outputs, task, cur, todo, reason>>

\* Promise.all has fulfilled: the success line, and the program ends
RunnerSuccess ==
    /\ pc = "awaiting" /\ \A b \in Bundlers : task[b] = "fulfilled"
    /\ stdio' = Append(stdio, Say("stdout", "main", "success", BundlerOrder))
    /\ pc' = "done"
    /\ exitCode' = "0"
    /\ UNCHANGED <<src, lintPc, lintOut, walkPc, walkOut, outputs, task, cur, todo, reason>>

NextRunner ==
    \/ \E b \in Bundlers : TaskResume(b) \/ TaskPrint(b) \/ TaskThrow(b)
    \/ RunnerCatch
    \/ RunnerSuccess

SpecRunner == InitRunner /\ [][NextRunner]_vars

(* ======================= the claims of the spec ========================= *)
Invocation(t) == t = "CallExpression" \/ t = "NewExpression"
Annotated(e) == e.lead = PureAt \/ e.lead = PureHash
KindOf(t) == IF t = "CallExpression" THEN "function" ELSE "class"

\* the node is a scope of its own: a function of any form, or the initializer of
\* a non-static class field
OpensScope(n) ==
    \/ n.type \in {"FunctionDeclaration", "FunctionExpression", "ArrowFunctionExpression"}
    \/ n.type = "PropertyDefinition" /\ ~n.static

RECURSIVE Flat(_, _, _), FlatAll(_, _, _, _)
\* the nodes of a parsed tree in source order, each with whether a scope encloses
\* it and whether it stands in the callee position of an invocation
Flat(n, scoped, isCallee) ==
    <<[type |-> n.type, line |-> n.line, column |-> n.column,
       scoped |-> scoped, isCallee |-> isCallee]>>
    \o FlatAll(n.kids, scoped \/ OpensScope(n), Invocation(n.type), TRUE)

FlatAll(ks, scoped, ofInvocation, first) ==
    IF ks = <<>> THEN <<>>
    ELSE Flat(Head(ks), scoped, ofInvocation /\ first)
         \o FlatAll(Tail(ks), scoped, ofInvocation, FALSE)

NodesOf(m) == FlatAll(Parse(m).kids, FALSE, FALSE, FALSE)

At(e) == <<e.line, e.column>>
ErrorsAt(es, pos) == {i \in 1..Len(es) : At(es[i]) = pos}

RECURSIVE FullName(_)
\* the dotted name of a callee, written out in full
FullName(c) ==
    IF c.type = "MemberExpression" THEN FullName(object(c)) \o "." \o property(c).name
    ELSE c.name

Builtin(c) == \E i \in 1..Len(builtins) : builtins[i] = FullName(c)

(* C1: a backend passes exactly when every top-level statement of its output is
   an import (an empty body passes); the loop goes on only past backends that
   pass; the run ends with the success line and without exit code 1 exactly when
   every backend passes, and with exit code 1 and no success line otherwise. *)
Passes(b) ==
    /\ ~outputs[b].rejected
    /\ \A i \in 1..Len(outputs[b].body) : outputs[b].body[i].type = "ImportDeclaration"
SuccessPrinted == \E i \in 1..Len(stdio) : stdio[i].kind = "success"
C1_SuccessIffAllPass ==
    /\ \A k \in 1..(cur - 1) : Passes(BundlerOrder[k])
    /\ pc \in {"lint", "report"} => ~Passes(BundlerOrder[cur])
    /\ pc = "success" => \A b \in Bundlers : Passes(b)
    /\ (\E b \in Bundlers : ~Passes(b)) => ~SuccessPrinted /\ exitCode # "0"
    /\ exitCode = "1" => \E b \in Bundlers : ~Passes(b)
    /\ pc \in {"done", "exited"} =>
          /\ SuccessPrinted <=> \A b \in Bundlers : Passes(b)
          /\ exitCode = "1" <=> \E b \in Bundlers : ~Passes(b)
C1_Witness ==
    /\ pc = "exited" /\ exitCode = "1" /\ ~SuccessPrinted
    /\ Passes("Rollup") /\ outputs["Rollup"].body # <<>>
    /\ outputs["Webpack"].body = <<>>
    /\ ~outputs["ESBuild"].rejected /\ ~Passes("ESBuild")
    /\ Len(stdio) > 1

(* C2: a module of declarations of any form (declarators without initializer
   included) and one invocation that is bound to a variable and annotated with
   @__PURE__ or #__PURE__ makes lint return no diagnostic, without throwing. *)
PlainDeclaration(s) ==
    \/ s.type \in {"FunctionDeclaration", "ClassDeclaration", "ImportDeclaration"}
    \/ s.type = "VariableDeclaration" /\ init(s.kids[1]).type \in {"null", "Identifier"}
AnnotatedBound(s) ==
    /\ s.type = "VariableDeclaration"
    /\ Invocation(init(s.kids[1]).type)
    /\ Annotated(init(s.kids[1]))
C2_AnnotatedBoundIsClean ==
    (/\ lintPc = "done"
     /\ \E i \in 1..Len(src) :
           /\ AnnotatedBound(src[i])
           /\ \A j \in (1..Len(src)) \ {i} : PlainDeclaration(src[j]))
    => ~lintOut.threw /\ lintOut.errors = <<>>

(* C3: a module whose one statement is an unannotated invocation or construction
   with a discarded result and a callee that is not a builtin (an identifier, a
   one-level member access or an anonymous function) gets exactly one diagnostic:
   'must have a value', at the call's line and column, naming 'function' for a
   call and 'class' for a construction. *)
DiscardedInvocation(s) ==
    /\ s.type = "ExpressionStatement"
    /\ Invocation(s.kids[1].type)
    /\ ~Annotated(s.kids[1])
    /\ LET c == callee(s.kids[1])
       IN  \/ c.type = "Identifier" /\ ~Builtin(c)
           \/ c.type = "MemberExpression" /\ object(c).type = "Identifier" /\ ~Builtin(c)
           \/ c.type \in {"FunctionExpression", "ArrowFunctionExpression"}
C3_DiscardedGetsMustHaveValue ==
    (lintPc = "done" /\ Len(src) = 1 /\ DiscardedInvocation(src[1]))
    => LET call == Parse(src).kids[1].kids[1]
       IN  /\ ~lintOut.threw
           /\ Cardinality(ErrorsAt(lintOut.errors, At(call))) = 1
           /\ \A i \in ErrorsAt(lintOut.errors, At(call)) :
                 lintOut.errors[i].error = MustHaveValue(KindOf(call.type))

(* C4: a module whose statements are invocations and constructions of builtin
   list entries (two-level entries included), bound or discarded, annotated or
   not, gets no diagnostic. *)
BuiltinInvocation(e) == Invocation(e.type) /\ Builtin(callee(e)) /\ arguments(e) = <<>>
BuiltinStatement(s) ==
    \/ s.type = "ExpressionStatement" /\ BuiltinInvocation(s.kids[1])
    \/ s.type = "VariableDeclaration" /\ BuiltinInvocation(init(s.kids[1]))
C4_BuiltinsAreClean ==
    (lintPc = "done" /\ \A i \in 1..Len(src) : BuiltinStatement(src[i]))
    => ~lintOut.threw /\ lintOut.errors = <<>>

(* C5: no diagnostic, of lint or of the ancestor walk, is at an invocation,
   construction or member access that lies inside a function of any form or a
   non-static class field initializer; a module that only defines functions
   yields no diagnostic. *)
ScopedAt(m) ==
    LET ns == NodesOf(m)
    IN  {At(ns[i]) : i \in {k \in 1..Len(ns) :
              ns[k].scoped /\ (Invocation(ns[k].type) \/ ns[k].type = "MemberExpression")}}
DefinesFunction(s) ==
    \/ s.type = "FunctionDeclaration"
    \/ s.type = "ExpressionStatement"
       /\ s.kids[1].type \in {"FunctionExpression", "ArrowFunctionExpression"}
C5_NothingInsideScopes ==
    LET scoped == ScopedAt(src)
        onlyDefines == \A i \in 1..Len(src) : DefinesFunction(src[i])
    IN  /\ lintPc = "done" =>
              /\ \A i \in 1..Len(lintOut.errors) : At(lintOut.errors[i]) \notin scoped
              /\ onlyDefines => ~lintOut.threw /\ lintOut.errors = <<>>
        /\ walkPc = "done" =>
              /\ \A i \in 1..Len(walkOut) : At(walkOut[i]) \notin scoped
              /\ onlyDefines => walkOut = <<>>
C5_Witness ==
    /\ lintPc = "done" /\ walkPc = "done"
    /\ ScopedAt(src) # {}
    /\ lintOut.errors # <<>> /\ walkOut # <<>>
    /\ \E i \in 1..Len(src) : src[i].type = "ClassDeclaration" /\ ~src[i].kids[1].static

(* C6: in a module whose member accesses stand as a statement, an initializer,
   an assignment side, an argument, the object of another member access or a
   callee, lint reports one RiskyMemberAccess for every member access that is
   not a callee and none for one that is. *)
RECURSIVE ListedPlace(_)
ListedPlace(e) ==
    \/ e.type = "Identifier"
    \/ e.type \in {"MemberExpression", "CallExpression", "NewExpression", "AssignmentExpression"}
       /\ e.lead = NoLead
       /\ \A i \in 1..Len(e.kids) : ListedPlace(e.kids[i])
ListedStatement(s) ==
    \/ s.type = "ExpressionStatement" /\ ListedPlace(s.kids[1])
    \/ s.type = "VariableDeclaration" /\ ListedPlace(init(s.kids[1]))
RiskyAt(es, pos) == {i \in ErrorsAt(es, pos) : es[i].error = RiskyMember}
AccessesAt(m, pos) ==
    LET ns == NodesOf(m)
    IN  {k \in 1..Len(ns) :
            ns[k].type = "MemberExpression" /\ ~ns[k].isCallee /\ At(ns[k]) = pos}
Positions(m) == LET ns == NodesOf(m) IN {At(ns[k]) : k \in 1..Len(ns)}
C6_MemberAccessIffNotCallee ==
    (lintPc = "done" /\ \A i \in 1..Len(src) : ListedStatement(src[i]))
    => /\ ~lintOut.threw
       /\ \A pos \in Positions(src) :
             Cardinality(RiskyAt(lintOut.errors, pos)) = Cardinality(AccessesAt(src, pos))

(* C7: the errors of one analysis are in ascending order of line, then column,
   both those lint returns and those the ancestor walk pushes.  Stated as: no
   error is followed by an error at an earlier position, which the strict order
   of the claim implies. *)
Ascending(es) ==
    \A i \in 1..(Len(es) - 1) :
        \/ es[i].line < es[i + 1].line
        \/ es[i].line = es[i + 1].line /\ es[i].column <= es[i + 1].column
C7_ErrorsAscending ==
    /\ lintPc = "done" => Ascending(lintOut.errors)
    /\ walkPc = "done" => Ascending(walkOut)

(* C8: the console calls of one backend's report are one contiguous block of the
   output, the listing first and the diagnostics after it: no call of another
   backend, or of the main program, comes between two calls of one backend. *)
CallsOf(b) == {i \in 1..Len(stdio) : stdio[i].by = b}
C8_ReportsContiguous ==
    \A b \in Bundlers :
        \A i \in CallsOf(b), k \in CallsOf(b) :
            /\ \A j \in i..k : stdio[j].by = b
            /\ i < k => stdio[k].stream = "stderr"
C8_Witness ==
    \E a \in Bundlers, b \in Bundlers :
        /\ a # b
        /\ Cardinality(CallsOf(a)) >= 3
        /\ Cardinality(CallsOf(b)) >= 2
        /\ task[a] = "rejected" /\ task[b] = "rejected"

(* C9, as claimed: once a backend task has failed, every sibling still runs to
   its own completion or failure, so the program never ends with a task pending. *)
C9_SiblingsAlwaysFinish ==
    pc \in {"done", "exited"} => \A b \in Bundlers : task[b] \in {"fulfilled", "rejected"}

(* C9, amended: the failure of a backend task changes no sibling; a pending
   sibling leaves the pending state only by its own step, and only while the main
   program has not ended: after process.exit(1) in the catch handler a sibling
   that is still pending runs no further. *)
C9_FailureLeavesSiblingsAlone ==
    [][\A b \in Bundlers :
          /\ (task[b] = "compiling" /\ task'[b] # "compiling")
                => pc = "awaiting" /\ \A c \in Bundlers \ {b} : task'[c] = task[c]
          /\ pc = "exited" => task'[b] = task[b]]_vars
C9_Witness ==
    \E a \in Bundlers, b \in Bundlers :
        /\ task[a] = "rejected" /\ task[b] = "printing"
        /\ pc = "awaiting"

(* C10: a module whose one statement retains the result of an unannotated
   invocation of a non-builtin (declarator initializer, right side of an
   assignment to a variable or property, property or element of a bound object
   or array) gets for it 'must be annotated', and not 'must have a value'. *)
PlainInvocation(e) ==
    /\ Invocation(e.type) /\ ~Annotated(e) /\ arguments(e) = <<>>
    /\ callee(e).type = "Identifier" /\ ~Builtin(callee(e))
RetainedIn(s) ==
    IF s.type = "VariableDeclaration"
    THEN LET v == init(s.kids[1])
         IN  IF PlainInvocation(v) THEN <<v>>
             ELSE IF v.type = "ArrayExpression" /\ Len(v.kids) = 1 /\ PlainInvocation(v.kids[1])
             THEN <<v.kids[1]>>
             ELSE IF v.type = "ObjectExpression" /\ PlainInvocation(value(v.kids[1]))
             THEN <<value(v.kids[1])>>
             ELSE <<>>
    ELSE IF s.type = "ExpressionStatement" /\ s.kids[1].type = "AssignmentExpression"
            /\ PlainInvocation(right(s.kids[1]))
    THEN <<right(s.kids[1])>>
    ELSE <<>>
C10_RetainedGetsMustBeAnnotated ==
    (lintPc = "done" /\ Len(src) = 1)
    => LET stmt == Parse(src).kids[1]
           kept == RetainedIn(stmt)
       IN  kept # <<>> =>
              /\ ~lintOut.threw
              /\ \E i \in ErrorsAt(lintOut.errors, At(kept[1])) :
                    lintOut.errors[i].error = MustBeAnnotated(KindOf(kept[1].type))
              /\ \A i \in ErrorsAt(lintOut.errors, At(kept[1])) :
                    lintOut.errors[i].error # MustHaveValue(KindOf(kept[1].type))

(* C11: only a purity annotation that stands immediately before an invocation or
   construction suppresses its diagnostic: in every module lint analyses without
   throwing, a top-level invocation of a name outside the builtins that has no
   @__PURE__/#__PURE__ comment directly in front of it is reported at its
   position as an invocation, whatever annotation stands earlier in the text
   (before another statement, or inside a function body). *)
TopLevelInvocation(s) ==
    IF s.type = "ExpressionStatement" /\ Invocation(s.kids[1].type) THEN <<s.kids[1]>>
    ELSE IF s.type = "VariableDeclaration" /\ Invocation(init(s.kids[1]).type)
    THEN <<init(s.kids[1])>>
    ELSE <<>>
Unannotated(e) ==
    /\ ~Annotated(e)
    /\ callee(e).type = "Identifier"
    /\ ~Builtin(callee(e))
C11_AnnotationMustBeAdjacent ==
    (lintPc = "done" /\ ~lintOut.threw)
    => \A i \in 1..Len(src) :
          LET found == TopLevelInvocation(Parse(src).kids[i])
          IN  (found # <<>> /\ Unannotated(found[1])) =>
                 \E k \in ErrorsAt(lintOut.errors, At(found[1])) :
                    lintOut.errors[k].error \in {MustHaveValue(KindOf(found[1].type)),
                                                  MustBeAnnotated(KindOf(found[1].type))}

====
